---- MODULE Spec2Model ----
(***************************************************************************)
(* A state-machine model of the IULIA tree-walking interpreter of          *)
(* libjulia/interpreter/Interpreter.cpp.                                   *)
(*                                                                         *)
(* The C++ interpreter is recursive: a statement handler calls the         *)
(* expression evaluator, which for a user function call constructs a new   *)
(* Interpreter and runs the callee's body.  The model makes the C++ call   *)
(* stack explicit: `stack` holds the pending positions (the head is the    *)
(* position that runs next), `interpreters` the live Interpreter objects   *)
(* (the last one is the executing one), `evaluators` the m_values vectors  *)
(* of the live ExpressionEvaluator objects, and `m_state` the shared       *)
(* machine state.  A thrown solAssert ends the execution: status becomes   *)
(* "failed", failedAt is the source line of the assertion, and the rest    *)
(* of the state is kept as it was at the throw.                            *)
(***************************************************************************)
EXTENDS Integers, Sequences, FiniteSets, TLC

VARIABLES
    prog,          \* the program under execution: [id, n]
    stack,         \* pending positions of the C++ call stack, head first
    interpreters,  \* live Interpreter objects, executing one last
    evaluators,    \* m_values of the live ExpressionEvaluator objects, current one last
    m_state,       \* the shared machine state
    status,        \* "running", "done" or "failed"
    failedAt       \* source line of the assertion that threw, 0 if none

vars == <<prog, stack, interpreters, evaluators, m_state, status, failedAt>>

(***************************************************************************)
(* Bounds of the model.                                                    *)
(***************************************************************************)
\* Width of a word in bytes (the program's u256 has 32; TLC's integers
\* cannot hold it, so the word is scaled down and all arithmetic is
\* taken modulo WordMod).
WordBytes == 2
\* Largest value of the parameter n of the parameterised programs.
MaxN == 5

WordMod == 256 ^ WordBytes

(***************************************************************************)
(* The syntax tree (libsolidity/inlineasm/AsmData.h).                      *)
(***************************************************************************)
NoExpression == [type |-> "None"]

Literal(kind, value) == [type |-> "Literal", kind |-> kind, value |-> value]

Identifier(name) == [type |-> "Identifier", name |-> name]

FunctionalInstruction(instruction, arguments) ==
    [type |-> "FunctionalInstruction", instruction |-> instruction, arguments |-> arguments]

FunctionCall(functionName, arguments) ==
    [type |-> "FunctionCall", functionName |-> functionName, arguments |-> arguments]

ExpressionStatement(expression) ==
    [type |-> "ExpressionStatement", expression |-> expression]

Assignment(variableNames, value) ==
    [type |-> "Assignment", variableNames |-> variableNames, value |-> value]

VariableDeclaration(variables, value) ==
    [type |-> "VariableDeclaration", variables |-> variables, value |-> value]

Block(statements) == [type |-> "Block", statements |-> statements]

If(condition, body) == [type |-> "If", condition |-> condition, body |-> body]

Case(value, body) == [value |-> value, body |-> body]

Switch(expression, cases) == [type |-> "Switch", expression |-> expression, cases |-> cases]

FunctionDefinition(name, parameters, returnVariables, body) ==
    [type |-> "FunctionDefinition", name |-> name, parameters |-> parameters,
     returnVariables |-> returnVariables, body |-> body]

ForLoop(pre, condition, post, body) ==
    [type |-> "ForLoop", pre |-> pre, condition |-> condition, post |-> post, body |-> body]

\* The decimal text of a number, for writing number literals.
RECURSIVE Digits(_)
Digits(n) == IF n < 10 THEN <<n>> ELSE Append(Digits(n \div 10), n % 10)

Num(n) == Literal("Number", Digits(n))

(***************************************************************************)
(* Literal decoding, ExpressionEvaluator::operator()(Literal const&).      *)
(***************************************************************************)
\* u256(text) of a decimal text.
RECURSIVE ParseNumber(_)
ParseNumber(text) ==
    IF text = <<>> THEN 0
    ELSE (ParseNumber(SubSeq(text, 1, Len(text) - 1)) * 10 + text[Len(text)]) % WordMod

\* u256(h256(text, FromBinary, AlignLeft)): the bytes left-aligned in the
\* word, zero-padded on the right, read as a big-endian number.
RECURSIVE AlignLeft(_, _)
AlignLeft(bytes, width) ==
    IF width = 0 THEN 0
    ELSE (IF bytes = <<>> THEN 0 ELSE bytes[1] * (256 ^ (width - 1)))
         + AlignLeft(IF bytes = <<>> THEN <<>> ELSE Tail(bytes), width - 1)

\* [ok, value]: the value a literal decodes to, ok = FALSE where a
\* solAssert of the decoder throws.
LiteralValue(literal) ==
    CASE literal.kind = "Boolean" ->
            [ok |-> literal.value = "true" \/ literal.value = "false",
             line |-> 152,
             value |-> IF literal.value = "true" THEN 1 ELSE 0]
      [] literal.kind = "Number" ->
            [ok |-> TRUE, line |-> 156, value |-> ParseNumber(literal.value)]
      [] literal.kind = "String" ->
            [ok |-> Len(literal.value) <= WordBytes,
             line |-> 159,
             value |-> AlignLeft(literal.value, WordBytes)]

(***************************************************************************)
(* The word-machine evaluator (EVMInstructionInterpreter::eval), an        *)
(* external collaborator: a few instructions, of which sstore mutates the  *)
(* machine state and records itself in the state's trace.                  *)
(***************************************************************************)
InitialState == [storage |-> <<>>, trace |-> <<>>]

Bool(b) == IF b THEN 1 ELSE 0

InstructionArity(instruction) ==
    CASE instruction \in {"add", "sub", "mul", "lt", "gt", "eq", "sstore"} -> 2
      [] instruction \in {"iszero", "sload"} -> 1
      [] OTHER -> -1

\* [ok, value, state]
EVMInstructionEval(instruction, arg, state) ==
    IF InstructionArity(instruction) # Len(arg)
    THEN [ok |-> FALSE, value |-> 0, state |-> state]
    ELSE CASE instruction = "add" -> [ok |-> TRUE, value |-> (arg[1] + arg[2]) % WordMod, state |-> state]
           [] instruction = "sub" -> [ok |-> TRUE, value |-> (arg[1] - arg[2]) % WordMod, state |-> state]
           [] instruction = "mul" -> [ok |-> TRUE, value |-> (arg[1] * arg[2]) % WordMod, state |-> state]
           [] instruction = "lt" -> [ok |-> TRUE, value |-> Bool(arg[1] < arg[2]), state |-> state]
           [] instruction = "gt" -> [ok |-> TRUE, value |-> Bool(arg[1] > arg[2]), state |-> state]
           [] instruction = "eq" -> [ok |-> TRUE, value |-> Bool(arg[1] = arg[2]), state |-> state]
           [] instruction = "iszero" -> [ok |-> TRUE, value |-> Bool(arg[1] = 0), state |-> state]
           [] instruction = "sload" ->
                [ok |-> TRUE,
                 value |-> IF \E k \in 1..Len(state.storage) : state.storage[k][1] = arg[1]
                           THEN LET k == CHOOSE k \in 1..Len(state.storage) :
                                            state.storage[k][1] = arg[1]
                                IN state.storage[k][2]
                           ELSE 0,
                 state |-> state]
           [] instruction = "sstore" ->
                [ok |-> TRUE,
                 value |-> 0,
                 state |-> [storage |-> <<<<arg[1], arg[2]>>>> \o
                                SelectSeq(state.storage, LAMBDA kv : kv[1] # arg[1]),
                            trace |-> Append(state.trace, <<"sstore", arg[1], arg[2]>>)]]

(***************************************************************************)
(* Interpreter objects and the positions of the call stack.                *)
(***************************************************************************)
EmptyMap == [x \in {} |-> 0]

\* Interpreter(_state, _variables, _functions): m_scopes starts empty.
NewInterpreter(variables, functions) ==
    [m_variables |-> variables, m_functions |-> functions, m_scopes |-> <<>>]

Task(op, node) == [op |-> op, node |-> node, i |-> 0, acc |-> <<>>]

TaskAt(op, node, i, acc) == [op |-> op, node |-> node, i |-> i, acc |-> acc]
\* Mutant of Running: the execution goes on after a solAssert has thrown.
RunningAfterFailure == stack # <<>>

\* The execution has neither returned nor thrown: no handler in the file
\* catches, a solAssert that throws ends every pending call.
Running == status = "running" /\ stack # <<>>

top == Head(stack)

rest == Tail(stack)

\* The executing Interpreter (*this) and the current evaluator's m_values.
cur == Len(interpreters)

Self == interpreters[cur]

m_values == evaluators[Len(evaluators)]

Pop(seq) == SubSeq(seq, 1, Len(seq) - 1)

SetTop(seq, x) == [seq EXCEPT ![Len(seq)] = x]

RECURSIVE Reverse(_)
Reverse(seq) == IF seq = <<>> THEN <<>> ELSE Append(Reverse(Tail(seq)), Head(seq))

Erase(map, names) == [k \in DOMAIN map \ names |-> map[k]]

\* A solAssert that throws: the execution ends at that source line.
Throw(line) ==
    /\ status' = "failed"
    /\ failedAt' = line
    /\ UNCHANGED <<prog, stack, evaluators, m_state>>

Continue == UNCHANGED <<prog, status, failedAt>>

\* openScope() of Interpreter.h: a new empty frame becomes the innermost one.
openScope(self) == [self EXCEPT !.m_scopes = Append(@, {})]

\* closeScope(): every name of the innermost frame is erased from the
\* variables and from the functions, and exactly one of the two must have
\* held it.  The frame itself stays on m_scopes.
closeScopeOk(self) ==
    \A var \in self.m_scopes[Len(self.m_scopes)] :
        Bool(var \in DOMAIN self.m_variables) + Bool(var \in DOMAIN self.m_functions) = 1

closeScope(self) ==
    LET frame == self.m_scopes[Len(self.m_scopes)]
    IN  [self EXCEPT !.m_variables = Erase(@, frame),
                     !.m_functions = Erase(@, frame)]

\* The loop of Assignment: write values[i] to variableNames[i] from index i
\* on, stopping at the first name that is not a variable.  [ok, m_variables]
RECURSIVE AssignFrom(_, _, _, _)
AssignFrom(variables, names, values, i) ==
    IF i > Len(values) THEN [ok |-> TRUE, m_variables |-> variables]
    ELSE IF names[i] \notin DOMAIN variables THEN [ok |-> FALSE, m_variables |-> variables]
    ELSE AssignFrom([variables EXCEPT ![names[i]] = values[i]], names, values, i + 1)

\* The loop of VariableDeclaration: bind variables[i] to values[i] from
\* index i on, stopping at the first name that is already a variable.
RECURSIVE DeclareFrom(_, _, _, _)
DeclareFrom(variables, names, values, i) ==
    IF i > Len(values) THEN [ok |-> TRUE, m_variables |-> variables]
    ELSE IF names[i] \in DOMAIN variables THEN [ok |-> FALSE, m_variables |-> variables]
    ELSE DeclareFrom((names[i] :> values[i]) @@ variables, names, values, i + 1)

\* Mutant of ZeroValues: one zero, whatever the number of names.
ZeroValuesOne(n) == <<0>>

\* vector<u256> values(_declaration.variables.size(), 0)
ZeroValues(n) == [k \in 1..n |-> 0]

\* Mutant of RegisterFunctions: no pre-pass, the function table is left
\* as it was when the block began.
RegisterNothing(statements, functions) == functions

\* The pre-pass of Block: every function definition directly in the block
\* is entered into the function table, a later one replacing an earlier one.
RECURSIVE RegisterFunctions(_, _)
RegisterFunctions(statements, functions) ==
    IF statements = <<>> THEN functions
    ELSE LET s == Head(statements)
         IN  RegisterFunctions(Tail(statements),
                 IF s.type = "FunctionDefinition"
                 THEN (s.name :> s) @@ functions
                 ELSE functions)

\* ASTWalker::operator()(Block const&): the statements are visited in order.
VisitAll(statements) == [k \in 1..Len(statements) |-> Task("visit", statements[k])]

(***************************************************************************)
(* The statement executor.  Each handler that evaluates an expression is   *)
(* split at the call: the first action constructs the ExpressionEvaluator  *)
(* and leaves the handler's continuation under the expression on the       *)
(* stack, the second resumes the handler with the evaluator's result.      *)
(***************************************************************************)
AtStatement(type) == Running /\ top.op = "visit" /\ top.node.type = type

At(op) == Running /\ top.op = op

\* evaluate / evaluateMulti: a new ExpressionEvaluator over this
\* interpreter's state, variables and functions visits the expression;
\* `then` is the position the result returns to.
evaluate(expression, then) ==
    /\ evaluators' = Append(evaluators, <<>>)
    /\ stack' = <<Task("ev.visit", expression), then>> \o rest
    /\ UNCHANGED <<interpreters, m_state>>
    /\ Continue

ExpressionStatementBegin ==
    /\ AtStatement("ExpressionStatement")
    /\ evaluate(top.node.expression, Task("ExpressionStatement.end", top.node))

ExpressionStatementEnd ==
    /\ At("ExpressionStatement.end")
    /\ evaluators' = Pop(evaluators)
    /\ stack' = rest
    /\ UNCHANGED <<interpreters, m_state>>
    /\ Continue

AssignmentBegin ==
    /\ AtStatement("Assignment")
    /\ IF top.node.value = NoExpression
       THEN Throw(45) /\ UNCHANGED interpreters
       ELSE evaluate(top.node.value, Task("Assignment.write", top.node))

AssignmentWrite ==
    /\ At("Assignment.write")
    /\ LET values == m_values
           names == top.node.variableNames
           written == AssignFrom(Self.m_variables, names, values, 1)
       IN  IF Len(values) # Len(names)
           THEN Throw(47) /\ UNCHANGED interpreters
           ELSE /\ interpreters' = SetTop(interpreters,
                                       [Self EXCEPT !.m_variables = written.m_variables])
                /\ IF written.ok
                   THEN /\ evaluators' = Pop(evaluators)
                        /\ stack' = rest
                        /\ UNCHANGED m_state
                        /\ Continue
                   ELSE Throw(51)

\* Mutant of VariableDeclarationWrite: the solAssert of line 62 left out,
\* the loop binds as many names as there are values and names.
VariableDeclarationWriteAnyArity(self, node, values) ==
    LET n == IF Len(values) < Len(node.variables) THEN Len(values) ELSE Len(node.variables)
        declared == DeclareFrom(self.m_variables, SubSeq(node.variables, 1, n),
                                SubSeq(values, 1, n), 1)
    IN  [ok |-> declared.ok, line |-> 66,
         self |-> [self EXCEPT !.m_variables = declared.m_variables]]

\* Lines 62-68 of VariableDeclaration: the arity check and the loop.
\* [ok, line, self]
VariableDeclarationWrite(self, node, values) ==
    LET declared == DeclareFrom(self.m_variables, node.variables, values, 1)
    IN  IF Len(values) # Len(node.variables)
        THEN [ok |-> FALSE, line |-> 62, self |-> self]
        ELSE [ok |-> declared.ok, line |-> 66,
              self |-> [self EXCEPT !.m_variables = declared.m_variables]]

VariableDeclarationBegin ==
    /\ AtStatement("VariableDeclaration")
    /\ IF top.node.value = NoExpression
       THEN LET done == VariableDeclarationWrite(
                            Self, top.node, ZeroValues(Len(top.node.variables)))
            IN  /\ interpreters' = SetTop(interpreters, done.self)
                /\ IF done.ok
                   THEN stack' = rest /\ UNCHANGED <<evaluators, m_state>> /\ Continue
                   ELSE Throw(done.line)
       ELSE evaluate(top.node.value, Task("VariableDeclaration.write", top.node))

VariableDeclarationEnd ==
    /\ At("VariableDeclaration.write")
    /\ LET done == VariableDeclarationWrite(Self, top.node, m_values)
       IN  /\ interpreters' = SetTop(interpreters, done.self)
           /\ IF done.ok
              THEN /\ evaluators' = Pop(evaluators)
                   /\ stack' = rest
                   /\ UNCHANGED m_state
                   /\ Continue
              ELSE Throw(done.line)

IfBegin ==
    /\ AtStatement("If")
    /\ IF top.node.condition = NoExpression
       THEN Throw(73) /\ UNCHANGED interpreters
       ELSE evaluate(top.node.condition, Task("If.test", top.node))

IfTest ==
    /\ At("If.test")
    /\ IF Len(m_values) # 1
       THEN Throw(74) /\ UNCHANGED interpreters
       ELSE /\ evaluators' = Pop(evaluators)
            /\ stack' = IF m_values[1] # 0
                        THEN <<Task("visit", top.node.body)>> \o rest
                        ELSE rest
            /\ UNCHANGED <<interpreters, m_state>>
            /\ Continue

FunctionDefinitionStatement ==
    /\ AtStatement("FunctionDefinition")
    /\ stack' = rest
    /\ UNCHANGED <<interpreters, evaluators, m_state>>
    /\ Continue

SwitchBegin ==
    /\ AtStatement("Switch")
    /\ IF top.node.expression = NoExpression
       THEN Throw(80) /\ UNCHANGED interpreters
       ELSE evaluate(top.node.expression, Task("Switch.val", top.node))

\* u256 val = evaluate(*_switch.expression)
SwitchValue ==
    /\ At("Switch.val")
    /\ IF Len(m_values) # 1
       THEN Throw(81) /\ UNCHANGED interpreters
       ELSE /\ evaluators' = Pop(evaluators)
            /\ stack' = <<TaskAt("Switch.cases", top.node, 1, m_values)>> \o rest
            /\ UNCHANGED <<interpreters, m_state>>
            /\ Continue

\* Mutant of SwitchBreak: no break after the body, the loop goes on to the
\* next case.
SwitchBreakMissing(node, i, acc) == <<TaskAt("Switch.cases", node, i + 1, acc)>>

\* What is left of the range-for after the body of case i: nothing, the
\* break leaves the loop.
SwitchBreak(node, i, acc) == <<>>

\* The range-for over the cases, at case i: past the last case the switch
\* ends; a case without a value runs its body and breaks; a case with a
\* value has the value evaluated.
SwitchCase ==
    /\ At("Switch.cases")
    /\ LET cases == top.node.cases
           i == top.i
       IN  IF i > Len(cases)
           THEN /\ stack' = rest
                /\ UNCHANGED <<interpreters, evaluators, m_state>>
                /\ Continue
           ELSE IF cases[i].value = NoExpression
           THEN /\ stack' = <<Task("visit", cases[i].body)>>
                            \o SwitchBreak(top.node, i, top.acc) \o rest
                /\ UNCHANGED <<interpreters, evaluators, m_state>>
                /\ Continue
           ELSE evaluate(cases[i].value, TaskAt("Switch.compare", top.node, i, top.acc))

\* Mutant of CaseSelected: the guard's value is taken as the test, the
\* comparison with the scrutinee is left out.
CaseSelectedIfNonZero(guard, val) == guard # 0

\* evaluate(*c.value) == val
CaseSelected(guard, val) == guard = val

\* evaluate(*c.value) == val: the body runs and the loop breaks, or the
\* loop goes on to the next case.
SwitchCompare ==
    /\ At("Switch.compare")
    /\ IF Len(m_values) # 1
       THEN Throw(84) /\ UNCHANGED interpreters
       ELSE /\ evaluators' = Pop(evaluators)
            /\ stack' = IF CaseSelected(m_values[1], top.acc[1])
                        THEN <<Task("visit", top.node.cases[top.i].body)>>
                                 \o SwitchBreak(top.node, top.i, top.acc) \o rest
                        ELSE <<TaskAt("Switch.cases", top.node, top.i + 1, top.acc)>> \o rest
            /\ UNCHANGED <<interpreters, m_state>>
            /\ Continue

\* openScope() and the initializer statements, visited in this scope.
ForLoopBegin ==
    /\ AtStatement("ForLoop")
    /\ IF top.node.condition = NoExpression
       THEN Throw(97) /\ UNCHANGED interpreters
       ELSE /\ interpreters' = SetTop(interpreters, openScope(Self))
            /\ stack' = VisitAll(top.node.pre.statements)
                            \o <<Task("ForLoop.condition", top.node)>> \o rest
            /\ UNCHANGED <<evaluators, m_state>>
            /\ Continue

\* Mutant of ForLoopIteration: an if in place of the while, the condition
\* is not tested again after the post block.
ForLoopIterationOnce(node) ==
    <<Task("visit", node.body), Task("visit", node.post)>>

\* One turn of the while loop: the body, the post block, the condition again.
ForLoopIteration(node) ==
    <<Task("visit", node.body), Task("visit", node.post), Task("ForLoop.condition", node)>>

ForLoopCondition ==
    /\ At("ForLoop.condition")
    /\ evaluate(top.node.condition, Task("ForLoop.test", top.node))

\* while (evaluate(condition) != 0) { body; post }, then closeScope().
ForLoopTest ==
    /\ At("ForLoop.test")
    /\ IF Len(m_values) # 1
       THEN Throw(102) /\ UNCHANGED interpreters
       ELSE IF m_values[1] # 0
       THEN /\ evaluators' = Pop(evaluators)
            /\ stack' = ForLoopIteration(top.node) \o rest
            /\ UNCHANGED <<interpreters, m_state>>
            /\ Continue
       ELSE /\ interpreters' = SetTop(interpreters, closeScope(Self))
            /\ IF closeScopeOk(Self)
               THEN /\ evaluators' = Pop(evaluators)
                    /\ stack' = rest
                    /\ UNCHANGED m_state
                    /\ Continue
               ELSE Throw(142)

\* openScope(), the registration of the block's functions, and the walk
\* over the statements; "Block.end" is the position after the walk.
BlockBegin ==
    /\ AtStatement("Block")
    /\ interpreters' = SetTop(interpreters,
           [openScope(Self) EXCEPT
               !.m_functions = RegisterFunctions(top.node.statements, @)])
    /\ stack' = VisitAll(top.node.statements) \o <<Task("Block.end", top.node)>> \o rest
    /\ UNCHANGED <<evaluators, m_state>>
    /\ Continue

BlockEnd ==
    /\ At("Block.end")
    /\ interpreters' = SetTop(interpreters, closeScope(Self))
    /\ IF closeScopeOk(Self)
       THEN /\ stack' = rest
            /\ UNCHANGED <<evaluators, m_state>>
            /\ Continue
       ELSE Throw(142)

(***************************************************************************)
(* The expression evaluator.  It reads the variables and functions of the  *)
(* executing interpreter and writes its own m_values.                      *)
(***************************************************************************)
AtExpression(type) == Running /\ top.op = "ev.visit" /\ top.node.type = type

\* setValue(v): m_values becomes the one value.
setValue(value) == evaluators' = SetTop(evaluators, <<value>>)

EvaluateLiteral ==
    /\ AtExpression("Literal")
    /\ LET decoded == LiteralValue(top.node)
       IN  IF decoded.ok
           THEN /\ setValue(decoded.value)
                /\ stack' = rest
                /\ UNCHANGED <<interpreters, m_state>>
                /\ Continue
           ELSE Throw(decoded.line) /\ UNCHANGED interpreters

EvaluateIdentifier ==
    /\ AtExpression("Identifier")
    /\ IF top.node.name \in DOMAIN Self.m_variables
       THEN /\ setValue(Self.m_variables[top.node.name])
            /\ stack' = rest
            /\ UNCHANGED <<interpreters, m_state>>
            /\ Continue
       ELSE Throw(167) /\ UNCHANGED interpreters

\* Mutant of ArgumentOrder: the arguments are visited as written.
ArgumentOrderLeftToRight(n) == [k \in 1..n |-> k]

\* evaluateArgs visits the arguments in this order of their indices:
\* boost::adaptors::reversed, the last written argument first.
ArgumentOrder(n) == [k \in 1..n |-> n - k + 1]

\* evaluateArgs hands over the collected values after std::reverse.
CollectedValues(values) == Reverse(values)

\* evaluateArgs(arguments) as a position: i counts the arguments visited so
\* far, acc is the local vector `values`.
evaluateArgs(node) == TaskAt("evaluateArgs", node, 0, <<>>)

EvaluateArgsNext ==
    /\ At("evaluateArgs")
    /\ LET arguments == top.node.arguments
       IN  IF top.i = Len(arguments)
           THEN /\ evaluators' = SetTop(evaluators, CollectedValues(top.acc))
                /\ stack' = rest
           ELSE /\ stack' = <<Task("ev.visit", arguments[ArgumentOrder(Len(arguments))[top.i + 1]]),
                              TaskAt("evaluateArgs.push_back", top.node, top.i + 1, top.acc)>>
                                \o rest
                /\ UNCHANGED evaluators
    /\ UNCHANGED <<interpreters, m_state>>
    /\ Continue

\* values.push_back(value())
EvaluateArgsPushBack ==
    /\ At("evaluateArgs.push_back")
    /\ IF Len(m_values) # 1
       THEN Throw(209) /\ UNCHANGED interpreters
       ELSE /\ stack' = <<TaskAt("evaluateArgs", top.node, top.i, Append(top.acc, m_values[1]))>>
                            \o rest
            /\ UNCHANGED <<interpreters, evaluators, m_state>>
            /\ Continue

FunctionalInstructionBegin ==
    /\ AtExpression("FunctionalInstruction")
    /\ stack' = <<evaluateArgs(top.node), Task("FunctionalInstruction.eval", top.node)>> \o rest
    /\ UNCHANGED <<interpreters, evaluators, m_state>>
    /\ Continue

\* setValue(interpreter.eval(_instr.instruction, values()))
FunctionalInstructionEval ==
    /\ At("FunctionalInstruction.eval")
    /\ LET result == EVMInstructionEval(top.node.instruction, m_values, m_state)
       IN  IF result.ok
           THEN /\ m_state' = result.state
                /\ setValue(result.value)
                /\ stack' = rest
                /\ UNCHANGED interpreters
                /\ Continue
           ELSE Throw(177) /\ UNCHANGED interpreters

\* Mutant of FunctionKnown: the lookup is taken to succeed for every name.
FunctionKnownAlways(functions, name) == TRUE

\* m_functions.count(name)
FunctionKnown(functions, name) == name \in DOMAIN functions

\* The lookup of the callee's name, which throws before evaluateArgs where
\* the name is not in the table.
FunctionCallBegin ==
    /\ AtExpression("FunctionCall")
    /\ IF FunctionKnown(Self.m_functions, top.node.functionName)
       THEN /\ stack' = <<evaluateArgs(top.node), Task("FunctionCall.invoke", top.node)>> \o rest
            /\ UNCHANGED <<interpreters, evaluators, m_state>>
            /\ Continue
       ELSE Throw(182) /\ UNCHANGED interpreters

\* The map `arguments`: the parameters bound to the values by position,
\* then the return variables bound to zero.
Arguments(fun, values) ==
    LET parameters == [name \in {fun.parameters[i] : i \in 1..Len(fun.parameters)} |->
                          LET last == CHOOSE i \in 1..Len(fun.parameters) :
                                          /\ fun.parameters[i] = name
                                          /\ \A j \in (i + 1)..Len(fun.parameters) :
                                                 fun.parameters[j] # name
                          IN  values[last]]
        returns == [name \in {fun.returnVariables[i] : i \in 1..Len(fun.returnVariables)} |-> 0]
    IN  returns @@ parameters

\* Mutant of CalleeInterpreter: the callee's variables are the map
\* `arguments` over a copy of the caller's variables.
CalleeInterpreterSeesCaller(caller, fun, values) ==
    NewInterpreter(Arguments(fun, values) @@ caller.m_variables, caller.m_functions)

\* Mutant of CalleeInterpreter: the callee starts with an empty function
\* table.
CalleeInterpreterNoFunctions(caller, fun, values) ==
    NewInterpreter(Arguments(fun, values), EmptyMap)

\* The Interpreter a call runs the callee's body in: the map `arguments`
\* as its variables and a copy of the caller's function table.
CalleeInterpreter(caller, fun, values) ==
    NewInterpreter(Arguments(fun, values), caller.m_functions)

\* The arity check, the callee's Interpreter and the start of the body.
FunctionCallInvoke ==
    /\ At("FunctionCall.invoke")
    /\ IF top.node.functionName \notin DOMAIN Self.m_functions
       THEN Throw(185) /\ UNCHANGED interpreters
       ELSE
       LET fun == Self.m_functions[top.node.functionName]
       IN  IF Len(m_values) # Len(fun.parameters)
           THEN Throw(186) /\ UNCHANGED interpreters
           ELSE /\ interpreters' = Append(interpreters, CalleeInterpreter(Self, fun, m_values))
                /\ stack' = <<Task("visit", fun.body), Task("FunctionCall.return", fun)>> \o rest
                /\ UNCHANGED <<evaluators, m_state>>
                /\ Continue

\* Mutant of AfterCall: the callee's bindings are left in the caller's
\* variables under the names the caller does not have.
AfterCallLeaking(interps) ==
    LET callee == interps[Len(interps)]
        caller == interps[Len(interps) - 1]
    IN  SetTop(Pop(interps),
               [caller EXCEPT !.m_variables = @ @@ callee.m_variables])

\* Mutant of AfterCall: the callee wrote to the caller's variables of the
\* same names, as if the two Interpreters shared them.
AfterCallShared(interps) ==
    LET callee == interps[Len(interps)]
        caller == interps[Len(interps) - 1]
    IN  SetTop(Pop(interps),
               [caller EXCEPT !.m_variables =
                   [name \in DOMAIN @ |->
                       IF name \in DOMAIN callee.m_variables
                       THEN callee.m_variables[name]
                       ELSE @[name]]])

\* What the end of a call leaves of the interpreters: the callee's
\* Interpreter is destroyed.
AfterCall(interps) == Pop(interps)

\* The return variables' values are read from the callee's Interpreter in
\* their declared order.
ReturnValues(callee, fun) ==
    [k \in 1..Len(fun.returnVariables) |-> callee.m_variables[fun.returnVariables[k]]]

FunctionCallReturn ==
    /\ At("FunctionCall.return")
    /\ LET fun == top.node
       IN  IF \A k \in 1..Len(fun.returnVariables) :
                  fun.returnVariables[k] \in DOMAIN Self.m_variables
           THEN /\ evaluators' = SetTop(evaluators, ReturnValues(Self, fun))
                /\ interpreters' = AfterCall(interpreters)
                /\ stack' = rest
                /\ UNCHANGED m_state
                /\ Continue
           ELSE Throw(200) /\ UNCHANGED interpreters

\* The top-level call interpreter(block) has returned.
Finish ==
    /\ status = "running"
    /\ stack = <<>>
    /\ status' = "done"
    /\ UNCHANGED <<prog, stack, interpreters, evaluators, m_state, failedAt>>

(***************************************************************************)
(* The programs the interpreter is run on.  A program is named by its id   *)
(* and takes one number n.                                                 *)
(***************************************************************************)
Id(name) == Identifier(name)

Instr(instruction, arguments) == FunctionalInstruction(instruction, arguments)

Call(functionName, arguments) == FunctionCall(functionName, arguments)

Do(expression) == ExpressionStatement(expression)

Let(variables, value) == VariableDeclaration(variables, value)

\* function mark(k) -> r { sstore(k, k)  r := mul(k, 10) }
\* a call mark(k) leaves the event sstore(k, k) and has the value 10 * k.
MarkFunction ==
    FunctionDefinition("mark", <<"k">>, <<"r">>, Block(<<
        Do(Instr("sstore", <<Id("k"), Id("k")>>)),
        Assignment(<<"r">>, Instr("mul", <<Id("k"), Num(10)>>))>>))

Mark(k) == Call("mark", <<Num(k)>>)

\* function two() -> p, q { p := 1  q := 2 }
TwoFunction ==
    FunctionDefinition("two", <<>>, <<"p", "q">>, Block(<<
        Assignment(<<"p">>, Num(1)),
        Assignment(<<"q">>, Num(2))>>))

\* function fac(n) -> r { switch n case 0 { r := 1 }
\*                        default { r := mul(n, fac(sub(n, 1))) } }
FacFunction ==
    FunctionDefinition("fac", <<"n">>, <<"r">>, Block(<<
        Switch(Id("n"), <<
            Case(Num(0), Block(<<Assignment(<<"r">>, Num(1))>>)),
            Case(NoExpression, Block(<<
                Assignment(<<"r">>,
                    Instr("mul", <<Id("n"),
                                   Call("fac", <<Instr("sub", <<Id("n"), Num(1)>>)>>)>>))>>))>>)>>))

\* function even(n) -> r { switch n case 0 { r := 1 } default { r := odd(sub(n, 1)) } }
\* function odd(n) -> r { switch n case 0 { r := 0 } default { r := even(sub(n, 1)) } }
ParityFunction(name, other, atZero) ==
    FunctionDefinition(name, <<"n">>, <<"r">>, Block(<<
        Switch(Id("n"), <<
            Case(Num(0), Block(<<Assignment(<<"r">>, Num(atZero))>>)),
            Case(NoExpression, Block(<<
                Assignment(<<"r">>, Call(other, <<Instr("sub", <<Id("n"), Num(1)>>)>>))>>))>>)>>))

\* function tag(t, v) -> r { sstore(t, v)  r := v }
\* a call tag(t, v) leaves the event sstore(t, v) and has the value v.
TagFunction ==
    FunctionDefinition("tag", <<"t", "v">>, <<"r">>, Block(<<
        Do(Instr("sstore", <<Id("t"), Id("v")>>)),
        Assignment(<<"r">>, Id("v"))>>))

Tag(t, v) == Call("tag", <<Num(t), Num(v)>>)

\* The statement of the callee of program "failInCallee" that fails, by
\* the kind of failure: 0 a read of an undefined name (line 167), 1 a
\* declaration of a bound name (66), 2 a declaration of two names from one
\* value (62), 3 a Boolean literal that is neither true nor false (152),
\* 4 an instruction the machine rejects (177); any other n, r := 2.
FailingStatement(n) ==
    CASE n = 0 -> Assignment(<<"r">>, Id("nosuch"))
      [] n = 1 -> Let(<<"k">>, Num(1))
      [] n = 2 -> Let(<<"a", "b">>, Id("k"))
      [] n = 3 -> Assignment(<<"r">>, Literal("Boolean", "maybe"))
      [] n = 4 -> Assignment(<<"r">>, Instr("add", <<Id("k")>>))
      [] OTHER -> Assignment(<<"r">>, Num(2))

VariableNames == <<"a", "b", "c", "d", "e", "f", "g", "h">>

Program(id, n) ==
    CASE id = "siblings" ->
            \* { { let x := 1 } { let x := 2 } }
            Block(<<Block(<<Let(<<"x">>, Num(1))>>),
                    Block(<<Let(<<"x">>, Num(2))>>)>>)
      [] id = "blockThenUse" ->
            \* { { let x := n  function f() { sstore(7, 7) } }  let y := 3  f() }
            Block(<<Block(<<Let(<<"x">>, Num(n)),
                            FunctionDefinition("f", <<>>, <<>>, Block(<<
                                Do(Instr("sstore", <<Num(7), Num(7)>>))>>))>>),
                    Let(<<"y">>, Num(3)),
                    Do(Call("f", <<>>))>>)
      [] id = "orderInstruction" ->
            \* { function mark..  sstore(mark(1), mark(2)) }
            Block(<<MarkFunction,
                    Do(Instr("sstore", <<Mark(1), Mark(2)>>))>>)
      [] id = "orderCall" ->
            \* { function mark..  function g(x, y, z) { sstore(x, y) sstore(y, z) }
            \*   g(mark(1), mark(2), mark(3)) }
            Block(<<MarkFunction,
                    FunctionDefinition("g", <<"x", "y", "z">>, <<>>, Block(<<
                        Do(Instr("sstore", <<Id("x"), Id("y")>>)),
                        Do(Instr("sstore", <<Id("y"), Id("z")>>))>>)),
                    Do(Call("g", <<Mark(1), Mark(2), Mark(3)>>))>>)
      [] id = "orderNested" ->
            \* { function mark..  sstore(mark(1), sub(mark(3), mark(2))) }
            Block(<<MarkFunction,
                    Do(Instr("sstore", <<Mark(1), Instr("sub", <<Mark(3), Mark(2)>>)>>))>>)
      [] id = "orderPlain" ->
            \* { let v := add(sstore(1, 1), sstore(2, 2)) }
            Block(<<Let(<<"v">>, Instr("add", <<Instr("sstore", <<Num(1), Num(1)>>),
                                                Instr("sstore", <<Num(2), Num(2)>>)>>))>>)
      [] id = "redeclareSame" ->
            \* { let x := 1  let x := 2 }
            Block(<<Let(<<"x">>, Num(1)), Let(<<"x">>, Num(2))>>)
      [] id = "redeclareOuter" ->
            \* { let x := 1  { if lt(0, 1) { let x } } }
            Block(<<Let(<<"x">>, Num(1)),
                    Block(<<If(Instr("lt", <<Num(0), Num(1)>>),
                               Block(<<Let(<<"x">>, NoExpression)>>))>>)>>)
      [] id = "redeclareSecond" ->
            \* { function two..  let x := 7  let a, x := two() }
            Block(<<TwoFunction, Let(<<"x">>, Num(7)), Let(<<"a", "x">>, Call("two", <<>>))>>)
      [] id = "assignUndeclared" ->
            \* { let x := 1  y := 2 }
            Block(<<Let(<<"x">>, Num(1)), Assignment(<<"y">>, Num(2))>>)
      [] id = "assignAfterBlock" ->
            \* { { let x := 1 }  x := 2 }
            Block(<<Block(<<Let(<<"x">>, Num(1))>>), Assignment(<<"x">>, Num(2))>>)
      [] id = "assignSecondUndeclared" ->
            \* { function two..  let a  a, b := two() }
            Block(<<TwoFunction, Let(<<"a">>, NoExpression),
                    Assignment(<<"a", "b">>, Call("two", <<>>))>>)
      [] id = "factorial" ->
            \* { function fac..  let x := fac(n) }
            Block(<<FacFunction, Let(<<"x">>, Call("fac", <<Num(n)>>))>>)
      [] id = "forLoop" ->
            \* { for { let i := 0  let j := 1 } lt(i, n) { i := add(i, 1) } { sstore(i, j) } }
            Block(<<ForLoop(Block(<<Let(<<"i">>, Num(0)), Let(<<"j">>, Num(1))>>),
                            Instr("lt", <<Id("i"), Num(n)>>),
                            Block(<<Assignment(<<"i">>, Instr("add", <<Id("i"), Num(1)>>))>>),
                            Block(<<Do(Instr("sstore", <<Id("i"), Id("j")>>))>>))>>)
      [] id = "switch" ->
            \* { switch n case 0 { sstore(0, 1) } case 1 { sstore(1, 1) }
            \*            default { sstore(9, 9) } }
            Block(<<Switch(Num(n), <<
                        Case(Num(0), Block(<<Do(Instr("sstore", <<Num(0), Num(1)>>))>>)),
                        Case(Num(1), Block(<<Do(Instr("sstore", <<Num(1), Num(1)>>))>>)),
                        Case(NoExpression, Block(<<Do(Instr("sstore", <<Num(9), Num(9)>>))>>))>>)>>)
      [] id = "declareZero" ->
            \* { let a, b, ..  (n names)  sstore(1, a) }
            Block(<<Let(SubSeq(VariableNames, 1, n + 1), NoExpression),
                    Do(Instr("sstore", <<Num(1), Id("a")>>))>>)
      [] id = "parity" ->
            \* { let x := even(n)  function even..  function odd.. }
            Block(<<Let(<<"x">>, Call("even", <<Num(n)>>)),
                    ParityFunction("even", "odd", 1),
                    ParityFunction("odd", "even", 0)>>)
      [] id = "isolation" ->
            \* { function f(a) -> r { let t := 3  a := add(a, 1)  r := add(a, t) }
            \*   let a := 5  let r := 7  let t := 9  let y := f(n) }
            Block(<<FunctionDefinition("f", <<"a">>, <<"r">>, Block(<<
                        Let(<<"t">>, Num(3)),
                        Assignment(<<"a">>, Instr("add", <<Id("a"), Num(1)>>)),
                        Assignment(<<"r">>, Instr("add", <<Id("a"), Id("t")>>))>>)),
                    Let(<<"a">>, Num(5)), Let(<<"r">>, Num(7)), Let(<<"t">>, Num(9)),
                    Let(<<"y">>, Call("f", <<Num(n)>>))>>)
      [] id = "arityAssign" ->
            \* { function two..  let a  a := two() }
            Block(<<TwoFunction, Let(<<"a">>, NoExpression),
                    Assignment(<<"a">>, Call("two", <<>>))>>)
      [] id = "arityDeclare" ->
            \* { function two..  let a, b, c := two() }
            Block(<<TwoFunction, Let(<<"a", "b", "c">>, Call("two", <<>>))>>)
      [] id = "arityDeclareFew" ->
            \* { let x := 4  let a, b := sstore(1, x) }
            Block(<<Let(<<"x">>, Num(4)),
                    Let(<<"a", "b">>, Instr("sstore", <<Num(1), Id("x")>>))>>)
      [] id = "arityCall" ->
            \* { function mark..  function f(a) { sstore(a, a) }  f(mark(1), mark(2)) }
            Block(<<MarkFunction,
                    FunctionDefinition("f", <<"a">>, <<>>, Block(<<
                        Do(Instr("sstore", <<Id("a"), Id("a")>>))>>)),
                    Do(Call("f", <<Mark(1), Mark(2)>>))>>)
      [] id = "loopBodyDeclares" ->
            \* { for { let i := 0 } lt(i, n) { let u := add(i, 1)  i := u }
            \*       { let t := i  sstore(t, t) } }
            Block(<<ForLoop(Block(<<Let(<<"i">>, Num(0))>>),
                            Instr("lt", <<Id("i"), Num(n)>>),
                            Block(<<Let(<<"u">>, Instr("add", <<Id("i"), Num(1)>>)),
                                    Assignment(<<"i">>, Id("u"))>>),
                            Block(<<Let(<<"t">>, Id("i")),
                                    Do(Instr("sstore", <<Id("t"), Id("t")>>))>>))>>)
      [] id = "loopThenDeclare" ->
            \* { for { let i := 0 } lt(i, n) { i := add(i, 1) } { sstore(i, i) }
            \*   let i := 7  sstore(9, i) }
            Block(<<ForLoop(Block(<<Let(<<"i">>, Num(0))>>),
                            Instr("lt", <<Id("i"), Num(n)>>),
                            Block(<<Assignment(<<"i">>, Instr("add", <<Id("i"), Num(1)>>))>>),
                            Block(<<Do(Instr("sstore", <<Id("i"), Id("i")>>))>>)),
                    Let(<<"i">>, Num(7)),
                    Do(Instr("sstore", <<Num(9), Id("i")>>))>>)
      [] id = "switchEffects" ->
            \* { function tag..
            \*   switch tag(100, n) case tag(1, 0) { sstore(11, 0) }
            \*                      case tag(2, 1) { sstore(12, 0) }
            \*                      case tag(3, 1) { sstore(13, 0) }
            \*                      case tag(4, 2) { sstore(14, 0) }
            \*                      default { sstore(15, 0) }
            \*   sstore(99, 99) }
            Block(<<TagFunction,
                    Switch(Tag(100, n), <<
                        Case(Tag(1, 0), Block(<<Do(Instr("sstore", <<Num(11), Num(0)>>))>>)),
                        Case(Tag(2, 1), Block(<<Do(Instr("sstore", <<Num(12), Num(0)>>))>>)),
                        Case(Tag(3, 1), Block(<<Do(Instr("sstore", <<Num(13), Num(0)>>))>>)),
                        Case(Tag(4, 2), Block(<<Do(Instr("sstore", <<Num(14), Num(0)>>))>>)),
                        Case(NoExpression,
                             Block(<<Do(Instr("sstore", <<Num(15), Num(0)>>))>>))>>),
                    Do(Instr("sstore", <<Num(99), Num(99)>>))>>)
      [] id = "callerOnly" ->
            \* { function f(a) -> r { r := add(a, secret) }
            \*   let secret := 5  let y := f(1) }
            Block(<<FunctionDefinition("f", <<"a">>, <<"r">>, Block(<<
                        Assignment(<<"r">>, Instr("add", <<Id("a"), Id("secret")>>))>>)),
                    Let(<<"secret">>, Num(5)),
                    Let(<<"y">>, Call("f", <<Num(1)>>))>>)
      [] id = "pair" ->
            \* { function pair(a, b) -> p, q { sstore(p, q)  p := b  q := a }
            \*   let x, y := pair(n, add(n, 1))  sstore(x, y) }
            Block(<<FunctionDefinition("pair", <<"a", "b">>, <<"p", "q">>, Block(<<
                        Do(Instr("sstore", <<Id("p"), Id("q")>>)),
                        Assignment(<<"p">>, Id("b")),
                        Assignment(<<"q">>, Id("a"))>>)),
                    Let(<<"x", "y">>, Call("pair", <<Num(n), Instr("add", <<Num(n), Num(1)>>)>>)),
                    Do(Instr("sstore", <<Id("x"), Id("y")>>))>>)
      [] id = "enclosing" ->
            \* { function outer(k) -> r { r := add(k, 1) }
            \*   { function inner(k) -> r { r := outer(outer(k)) }
            \*     { let x := inner(n)  sstore(1, x) } } }
            Block(<<FunctionDefinition("outer", <<"k">>, <<"r">>, Block(<<
                        Assignment(<<"r">>, Instr("add", <<Id("k"), Num(1)>>))>>)),
                    Block(<<FunctionDefinition("inner", <<"k">>, <<"r">>, Block(<<
                                Assignment(<<"r">>,
                                    Call("outer", <<Call("outer", <<Id("k")>>)>>))>>)),
                            Block(<<Let(<<"x">>, Call("inner", <<Num(n)>>)),
                                    Do(Instr("sstore", <<Num(1), Id("x")>>))>>)>>)>>)
      [] id = "unknownCall" ->
            \* { function mark..  sstore(5, 5)  nosuch(mark(1), mark(2))  sstore(6, 6) }
            Block(<<MarkFunction,
                    Do(Instr("sstore", <<Num(5), Num(5)>>)),
                    Do(Call("nosuch", <<Mark(1), Mark(2)>>)),
                    Do(Instr("sstore", <<Num(6), Num(6)>>))>>)
      [] id = "failInCallee" ->
            \* { function f(k) -> r { sstore(k, k)  <FailingStatement(n)>  sstore(8, 8) }
            \*   for { let i := 0 } lt(i, 2) { i := add(i, 1) }
            \*       { if eq(i, 1) { let y := f(i)  sstore(7, y) }  sstore(20, i) }
            \*   sstore(9, 9) }
            Block(<<FunctionDefinition("f", <<"k">>, <<"r">>, Block(<<
                        Do(Instr("sstore", <<Id("k"), Id("k")>>)),
                        FailingStatement(n),
                        Do(Instr("sstore", <<Num(8), Num(8)>>))>>)),
                    ForLoop(Block(<<Let(<<"i">>, Num(0))>>),
                            Instr("lt", <<Id("i"), Num(2)>>),
                            Block(<<Assignment(<<"i">>, Instr("add", <<Id("i"), Num(1)>>))>>),
                            Block(<<If(Instr("eq", <<Id("i"), Num(1)>>),
                                       Block(<<Let(<<"y">>, Call("f", <<Id("i")>>)),
                                               Do(Instr("sstore", <<Num(7), Id("y")>>))>>)),
                                    Do(Instr("sstore", <<Num(20), Id("i")>>))>>)),
                    Do(Instr("sstore", <<Num(9), Num(9)>>))>>)
      [] id = "literals" ->
            \* { if true { sstore(1, "A") }  if false { sstore(2, 2) }
            \*   if iszero(sload(3)) { sstore(3, "AB") } }
            Block(<<If(Literal("Boolean", "true"),
                       Block(<<Do(Instr("sstore", <<Num(1), Literal("String", <<65>>)>>))>>)),
                    If(Literal("Boolean", "false"),
                       Block(<<Do(Instr("sstore", <<Num(2), Num(2)>>))>>)),
                    If(Instr("iszero", <<Instr("sload", <<Num(3)>>)>>),
                       Block(<<Do(Instr("sstore", <<Num(3), Literal("String", <<65, 66>>)>>))>>))>>)

\* The programs that take the number n, and those that do not.
NumberedPrograms ==
    {"blockThenUse", "factorial", "forLoop", "switch", "declareZero", "parity", "isolation",
     "loopBodyDeclares", "loopThenDeclare", "switchEffects", "pair", "enclosing",
     "failInCallee"}

PlainPrograms ==
    {"siblings", "orderInstruction", "orderCall", "orderNested", "orderPlain",
     "redeclareSame", "redeclareOuter", "redeclareSecond", "assignUndeclared",
     "assignAfterBlock", "assignSecondUndeclared", "literals",
     "arityAssign", "arityDeclare", "arityDeclareFew", "arityCall", "callerOnly",
     "unknownCall"}

Inputs ==
    {[id |-> id, n |-> n] : id \in NumberedPrograms, n \in 0..MaxN}
        \cup {[id |-> id, n |-> 0] : id \in PlainPrograms}

(***************************************************************************)
(* The specification: an Interpreter over the top-level block, no          *)
(* variables, no functions, and the call interpreter(block) pending.       *)
(***************************************************************************)
Init ==
    /\ prog \in Inputs
    /\ stack = <<Task("visit", Program(prog.id, prog.n))>>
    /\ interpreters = <<NewInterpreter(EmptyMap, EmptyMap)>>
    /\ evaluators = <<>>
    /\ m_state = InitialState
    /\ status = "running"
    /\ failedAt = 0

Next ==
    \/ ExpressionStatementBegin
    \/ ExpressionStatementEnd
    \/ AssignmentBegin
    \/ AssignmentWrite
    \/ VariableDeclarationBegin
    \/ VariableDeclarationEnd
    \/ IfBegin
    \/ IfTest
    \/ SwitchBegin
    \/ SwitchValue
    \/ SwitchCase
    \/ SwitchCompare
    \/ FunctionDefinitionStatement
    \/ ForLoopBegin
    \/ ForLoopCondition
    \/ ForLoopTest
    \/ BlockBegin
    \/ BlockEnd
    \/ EvaluateLiteral
    \/ EvaluateIdentifier
    \/ FunctionalInstructionBegin
    \/ FunctionalInstructionEval
    \/ EvaluateArgsNext
    \/ EvaluateArgsPushBack
    \/ FunctionCallBegin
    \/ FunctionCallInvoke
    \/ FunctionCallReturn
    \/ Finish

Spec == Init /\ [][Next]_vars

\* The interpreter is a sequential program that runs on until it returns
\* or throws: a step that can be taken is taken.
FairSpec == Spec /\ WF_vars(Next)

(***************************************************************************)
(* The claims.                                                             *)
(***************************************************************************)
Names(seq) == {seq[i] : i \in 1..Len(seq)}

\* The names a block declares or defines directly, not in a nested block.
VariablesDeclaredIn(block) ==
    UNION {Names(block.statements[i].variables) :
               i \in {j \in 1..Len(block.statements) :
                          block.statements[j].type = "VariableDeclaration"}}

FunctionsDefinedIn(block) ==
    {block.statements[i].name :
         i \in {j \in 1..Len(block.statements) :
                    block.statements[j].type = "FunctionDefinition"}}

Store(key, value) == <<"sstore", key, value>>

IsPrefix(s, t) == Len(s) <= Len(t) /\ SubSeq(t, 1, Len(s)) = s

\* C1: once a block has finished, no variable declared directly in it is
\* left in the variable bindings, and a sibling block that declares the
\* same name (program "siblings") does not fail.
C1_BlockVariablesGone ==
    /\ [][(At("Block.end") /\ status' = "running")
            => \A name \in VariablesDeclaredIn(top.node) :
                   name \notin DOMAIN interpreters'[cur].m_variables]_vars
    /\ [](prog.id = "siblings" => status # "failed")

\* The machine-state trace each of the argument-order programs must leave.
ExpectedTrace(id) ==
    CASE id = "orderInstruction" -> <<Store(2, 2), Store(1, 1), Store(10, 20)>>
      [] id = "orderCall" ->
            <<Store(3, 3), Store(2, 2), Store(1, 1), Store(10, 20), Store(20, 30)>>
      [] id = "orderNested" -> <<Store(2, 2), Store(3, 3), Store(1, 1), Store(10, 10)>>
      [] id = "orderPlain" -> <<Store(2, 2), Store(1, 1)>>

OrderPrograms == {"orderInstruction", "orderCall", "orderNested", "orderPlain"}

\* C2: the arguments of an instruction call or function call are evaluated
\* rightmost first, and the call receives the values in written order: in
\* the programs whose arguments are calls mark(k), which leave the event
\* sstore(k, k) and have the value 10 * k, the events of the arguments
\* appear last argument first, and the event of the receiving operation
\* shows the values in written order, at any nesting depth.
C2_ArgumentsRightmostFirst ==
    prog.id \in OrderPrograms =>
        /\ status # "failed"
        /\ IsPrefix(m_state.trace, ExpectedTrace(prog.id))
        /\ status = "done" => m_state.trace = ExpectedTrace(prog.id)

\* The nested call has run to its end: sstore(mark(1), sub(mark(3), mark(2))).
C2_Witness ==
    /\ prog.id = "orderNested"
    /\ status = "done"
    /\ Len(m_state.trace) = 4

\* The positions at which VariableDeclaration runs its loop.
AtDeclarationWrite ==
    \/ At("VariableDeclaration.write")
    \/ AtStatement("VariableDeclaration") /\ top.node.value = NoExpression

\* The positions of the executing interpreter: the stack down to the
\* return of the call whose body it runs, the whole stack at top level.
OwnStack ==
    LET returns == {k \in 1..Len(stack) : stack[k].op = "FunctionCall.return"}
    IN  IF returns = {} THEN stack
        ELSE SubSeq(stack, 1, CHOOSE k \in returns : \A other \in returns : k <= other)

\* The names a pending position stands for: a block that has begun and
\* not ended, a loop whose initializer has begun, the call being run.
ScopeNames(task) ==
    CASE task.op = "Block.end" -> VariablesDeclaredIn(task.node)
      [] task.op \in {"ForLoop.condition", "ForLoop.test"} -> VariablesDeclaredIn(task.node.pre)
      [] task.op = "FunctionCall.return" ->
            Names(task.node.parameters) \cup Names(task.node.returnVariables)
      [] OTHER -> {}

\* Every name a declaration of a scope that is open now declares, and the
\* parameters and return variables of the function being run: a name
\* outside this set is not declared where the execution stands.
DeclaredInOpenScopes == UNION {ScopeNames(OwnStack[k]) : k \in 1..Len(OwnStack)}

\* C3: a declaration that reaches its loop with a declared name already
\* among the variables (every visible variable is) throws and leaves that
\* name's binding as it was; an assignment that reaches its loop with a
\* target name that no open scope declares throws and binds no such name.
C3_RedeclarationAndUndeclaredAssignmentFail ==
    [][/\ AtDeclarationWrite =>
            \A name \in Names(top.node.variables) \cap DOMAIN Self.m_variables :
                /\ status' = "failed"
                /\ name \in DOMAIN interpreters'[cur].m_variables
                /\ interpreters'[cur].m_variables[name] = Self.m_variables[name]
       /\ At("Assignment.write") =>
            \A name \in Names(top.node.variableNames) \ DeclaredInOpenScopes :
                /\ status' = "failed"
                /\ name \notin DOMAIN interpreters'[cur].m_variables]_vars

RECURSIVE Factorial(_)
Factorial(n) == IF n = 0 THEN 1 ELSE n * Factorial(n - 1)

\* The state of the factorial program at every moment of its run.
C4_FactorialCalls ==
    prog.id = "factorial" =>
        /\ status # "failed"
        /\ Len(interpreters) <= prog.n + 2
        /\ \A k \in 2..Len(interpreters) :
               LET variables == interpreters[k].m_variables
               IN  /\ DOMAIN variables = {"n", "r"}
                   /\ variables["n"] = prog.n - (k - 2)
                   /\ \/ variables["r"] = 0
                      \/ k = Len(interpreters) /\ variables["r"] = Factorial(variables["n"])
        /\ status = "done" =>
               interpreters[1].m_variables["x"] = Factorial(prog.n) % WordMod

\* C4: the recursive factorial (program "factorial", x := fac(n))
\* terminates for every n of the range with x = n!, and each call has its
\* own n and r: the call at depth d holds n - d + 1 in its parameter while
\* the calls it made run and after they return, and its r is zero until it
\* assigns its own result.
C4_RecursiveFactorial ==
    /\ []C4_FactorialCalls
    /\ (prog.id = "factorial") ~> (status = "done")

\* fac(5) has returned 120.
C4_Witness ==
    /\ prog = [id |-> "factorial", n |-> 5]
    /\ status = "done"
    /\ interpreters[1].m_variables["x"] = 120

\* The loop is pending on the stack and none of the initializer's
\* declarations (the loop's only ones) is pending above it.
InLoop ==
    \E k \in 1..Len(stack) :
        /\ stack[k].op \in {"ForLoop.condition", "ForLoop.test"}
        /\ \A j \in 1..(k - 1) :
               /\ stack[j].op # "VariableDeclaration.write"
               /\ ~(stack[j].op = "visit" /\ stack[j].node.type = "VariableDeclaration")

\* C5: in the loop with the initializer let i := 0  let j := 1 (program
\* "forLoop", condition lt(i, n), post i := add(i, 1), body sstore(i, j)),
\* i and j are bound from the end of the initializer to the end of the
\* loop, the k-th run of the body reads i = k - 1 and j = 1, and the body
\* has run exactly n times when the loop has ended.
C5_LoopInitializerBindings ==
    prog.id = "forLoop" =>
        /\ status # "failed"
        /\ InLoop => /\ {"i", "j"} \subseteq DOMAIN interpreters[1].m_variables
                     /\ interpreters[1].m_variables["j"] = 1
                     /\ interpreters[1].m_variables["i"] \in
                            {Len(m_state.trace), Len(m_state.trace) - 1}
        /\ m_state.trace = [k \in 1..Len(m_state.trace) |-> Store(k - 1, 1)]
        /\ Len(m_state.trace) <= prog.n
        /\ status = "done" => Len(m_state.trace) = prog.n

\* The loop over lt(i, 3) has ended after three runs of its body.
C5_Witness ==
    /\ prog = [id |-> "forLoop", n |-> 3]
    /\ status = "done"
    /\ Len(m_state.trace) = 3

\* C6: in the switch with the cases 0 and 1 and a default last (program
\* "switch"), a scrutinee that equals neither guard runs the default's
\* body sstore(9, 9), once, and no other body.
C6_DefaultRunsOnce ==
    (prog.id = "switch" /\ prog.n \notin {0, 1}) =>
        /\ status # "failed"
        /\ IsPrefix(m_state.trace, <<Store(9, 9)>>)
        /\ status = "done" => m_state.trace = <<Store(9, 9)>>

C6_Witness ==
    /\ prog = [id |-> "switch", n |-> 2]
    /\ status = "done"
    /\ m_state.trace = <<Store(9, 9)>>

\* C7: a declaration without an initializer that has run leaves every
\* declared name bound to zero, for any number of names; and the
\* declaration let a, b, .. of n + 1 names (program "declareZero") does
\* run, and sstore(1, a) after it reads the zero.
C7_DeclaredWithoutValueIsZero ==
    /\ [][(/\ AtStatement("VariableDeclaration")
           /\ top.node.value = NoExpression
           /\ status' = "running")
            => \A name \in Names(top.node.variables) :
                   /\ name \in DOMAIN interpreters'[cur].m_variables
                   /\ interpreters'[cur].m_variables[name] = 0]_vars
    /\ [](prog.id = "declareZero" =>
            /\ status # "failed"
            /\ status = "done" =>
                   /\ interpreters[1].m_variables =
                          [name \in Names(SubSeq(VariableNames, 1, prog.n + 1)) |-> 0]
                   /\ m_state.trace = <<Store(1, 0)>>)

\* let a, b, c has run and sstore(1, a) has stored the zero it read.
C7_Witness ==
    /\ prog = [id |-> "declareZero", n |-> 2]
    /\ status = "done"
    /\ DOMAIN interpreters[1].m_variables = {"a", "b", "c"}
    /\ m_state.trace = <<Store(1, 0)>>

\* C8: when a block has finished, no function defined directly in it is
\* left in the function table, and the call f() that follows the block
\* defining f (program "blockThenUse") throws as a call of an unknown
\* function.
C8_BlockFunctionsGone ==
    /\ [][(At("Block.end") /\ status' = "running")
            => \A name \in FunctionsDefinedIn(top.node) :
                   name \notin DOMAIN interpreters'[cur].m_functions]_vars
    /\ []((prog.id = "blockThenUse" /\ status # "running")
            => (status = "failed" /\ failedAt = 182))

\* C9: when a block begins, every function defined directly in it is in
\* the function table while all the block's statements are still pending;
\* the call even(n) written before the definitions of even and odd, which
\* call each other (program "parity"), does not fail and yields the
\* parity of n; and the step over a function definition changes neither
\* an interpreter's variables or functions nor the machine state.
C9_FunctionsRegisteredFirst ==
    /\ [][/\ AtStatement("Block") =>
               /\ \A i \in 1..Len(top.node.statements) :
                      stack'[i] = Task("visit", top.node.statements[i])
               /\ \A name \in FunctionsDefinedIn(top.node) :
                      /\ name \in DOMAIN interpreters'[cur].m_functions
                      /\ interpreters'[cur].m_functions[name].name = name
          /\ AtStatement("FunctionDefinition") =>
               /\ interpreters' = interpreters
               /\ m_state' = m_state
               /\ status' = "running"]_vars
    /\ [](prog.id = "parity" =>
            /\ status # "failed"
            /\ status = "done" =>
                   interpreters[1].m_variables["x"] = Bool(prog.n % 2 = 0))

\* even(3), called before even and odd are defined, has returned 0
\* through odd(2), even(1) and odd(0).
C9_Witness ==
    /\ prog = [id |-> "parity", n |-> 3]
    /\ status = "done"
    /\ interpreters[1].m_variables["x"] = 0

\* The positions of the call stack that belong to the expression evaluator.
ExpressionPositions ==
    {"ev.visit", "evaluateArgs", "evaluateArgs.push_back", "FunctionalInstruction.eval",
     "FunctionCall.invoke", "FunctionCall.return"}

\* C10: no step of the expression evaluator (a literal, an identifier, an
\* instruction, the arguments, the start and the end of a function call)
\* changes the variables of an interpreter that is there before and after
\* the step, and no step at all changes the variables of an interpreter
\* other than the executing one: the callee's parameters, return
\* variables and locals are not added to the caller's variables, and the
\* caller's a, r and t keep their values over the call f(n) whose callee
\* has a parameter a, a return variable r and a local t (program
\* "isolation"); only the result reaches the caller, in y.
C10_ExpressionsLeaveCallerBindings ==
    /\ [][\A k \in 1..Len(interpreters) :
              (/\ k <= Len(interpreters')
               /\ k < cur \/ (Running /\ top.op \in ExpressionPositions))
                  => interpreters'[k].m_variables = interpreters[k].m_variables]_vars
    /\ [](prog.id = "isolation" =>
            /\ status # "failed"
            /\ status = "done" =>
                   interpreters[1].m_variables =
                       [a |-> 5, r |-> 7, t |-> 9, y |-> prog.n + 4])

\* f(1) has returned: the callee's a was 2, its t 3 and its r 5.
C10_Witness ==
    /\ prog = [id |-> "isolation", n |-> 1]
    /\ status = "done"
    /\ interpreters[1].m_variables = [a |-> 5, r |-> 7, t |-> 9, y |-> 5]

\* C11: an assignment or an initialized declaration that gets a number of
\* values other than its number of names throws and leaves every
\* interpreter as it was, no binding written or created; a function call
\* that has evaluated a number of arguments other than the callee's number
\* of parameters throws and no callee is started.
C11_ArityMismatchIsFatal ==
    [][/\ (At("Assignment.write") /\ Len(m_values) # Len(top.node.variableNames)) =>
            /\ status' = "failed"
            /\ interpreters' = interpreters
       /\ (At("VariableDeclaration.write") /\ Len(m_values) # Len(top.node.variables)) =>
            /\ status' = "failed"
            /\ interpreters' = interpreters
       /\ (/\ At("FunctionCall.invoke")
           /\ Len(m_values) # Len(Self.m_functions[top.node.functionName].parameters)) =>
            /\ status' = "failed"
            /\ interpreters' = interpreters
            /\ stack' = stack]_vars

\* let a, b, c := two() has thrown at the arity check with nothing bound.
C11_Witness ==
    /\ prog.id = "arityDeclare"
    /\ status = "failed"
    /\ failedAt = 62
    /\ interpreters[1].m_variables = EmptyMap

\* The scopes the executing interpreter is in: the blocks that have begun
\* and not ended and the loops whose initializer has begun.
OpenScopes ==
    {k \in 1..Len(OwnStack) :
         OwnStack[k].op \in {"Block.end", "ForLoop.condition", "ForLoop.test"}}

\* C12: at every moment of the run the scope stack of the executing
\* interpreter is as deep as the number of blocks and loop-initializer
\* regions it is executing, and a block or loop that has run to its end
\* leaves the scope stack as it was before the block or loop began.
C12_ScopeStackBalanced ==
    /\ [](Running => Len(Self.m_scopes) = Cardinality(OpenScopes))
    /\ [][((At("Block.end") \/ (At("ForLoop.test") /\ Len(m_values) = 1 /\ m_values[1] = 0))
             /\ status' = "running")
            => interpreters'[cur].m_scopes = Pop(Self.m_scopes)]_vars

\* C13: a declaration that has run has entered every name it declares
\* into the innermost frame, and a block that begins has entered every
\* function it defines into its new frame; at every moment every variable
\* of the executing interpreter that is not a parameter or return variable
\* of the function being run belongs to exactly one frame.
C13_NamesRecordedInInnermostFrame ==
    /\ [][/\ (AtDeclarationWrite /\ status' = "running") =>
               Names(top.node.variables) \subseteq
                   interpreters'[cur].m_scopes[Len(interpreters'[cur].m_scopes)]
          /\ AtStatement("Block") =>
               FunctionsDefinedIn(top.node) \subseteq
                   interpreters'[cur].m_scopes[Len(interpreters'[cur].m_scopes)]]_vars
    /\ [](Running =>
            \A name \in DOMAIN Self.m_variables :
                \/ \E k \in 1..Len(OwnStack) :
                       /\ OwnStack[k].op = "FunctionCall.return"
                       /\ name \in ScopeNames(OwnStack[k])
                \/ Cardinality({k \in 1..Len(Self.m_scopes) : name \in Self.m_scopes[k]}) = 1)

\* C14: the loop whose body declares t and whose post block declares u
\* (program "loopBodyDeclares", condition lt(i, n)) does not fail, t and u
\* are not bound when the condition is tested, and the body has run n
\* times, the k-th run storing k - 1, when the loop has ended.
C14_LoopBlocksScopedPerIteration ==
    prog.id = "loopBodyDeclares" =>
        /\ status # "failed"
        /\ At("ForLoop.test") => {"t", "u"} \cap DOMAIN Self.m_variables = {}
        /\ status = "done" =>
               m_state.trace = [k \in 1..prog.n |-> Store(k - 1, k - 1)]

\* C15: the step that ends a loop, the condition having the value zero,
\* leaves no variable of the initializer in the bindings; the program
\* that declares i again after the loop over i (program "loopThenDeclare")
\* does not fail and ends with the value 7 of the second i stored.
C15_InitializerScopeClosedAfterLoop ==
    /\ [][(At("ForLoop.test") /\ m_values = <<0>>) =>
             VariablesDeclaredIn(top.node.pre) \cap
                 DOMAIN interpreters'[cur].m_variables = {}]_vars
    /\ [](prog.id = "loopThenDeclare" =>
            /\ status # "failed"
            /\ status = "done" =>
                   /\ Len(m_state.trace) = prog.n + 1
                   /\ m_state.trace[prog.n + 1] = Store(9, 7))

\* The trace of program "switchEffects" with the scrutinee n: the event of
\* the scrutinee, the events of the guards up to the first guard equal to
\* n, the event of that case's body (of the default when no guard is
\* equal), and the event of the statement after the switch.
SwitchEffectsTrace(n) ==
    <<Store(100, n)>>
        \o (CASE n = 0 -> <<Store(1, 0), Store(11, 0)>>
              [] n = 1 -> <<Store(1, 0), Store(2, 1), Store(12, 0)>>
              [] n = 2 -> <<Store(1, 0), Store(2, 1), Store(3, 1), Store(4, 2), Store(14, 0)>>
              [] OTHER -> <<Store(1, 0), Store(2, 1), Store(3, 1), Store(4, 2), Store(15, 0)>>)
        \o <<Store(99, 99)>>

\* C16: in the switch whose scrutinee and guards are calls that leave an
\* event (program "switchEffects", guards 0, 1, 1, 2 and a default), the
\* scrutinee's event appears once, the guards' events appear in written
\* order up to the first guard equal to the scrutinee and no later guard's,
\* and exactly one body's event follows: that of the first equal case.
C16_SwitchStopsAtFirstMatch ==
    prog.id = "switchEffects" =>
        /\ status # "failed"
        /\ IsPrefix(m_state.trace, SwitchEffectsTrace(prog.n))
        /\ status = "done" => m_state.trace = SwitchEffectsTrace(prog.n)

\* The scrutinee 1 has selected the second case; the third, with the same
\* guard, and the fourth have not been evaluated.
C16_Witness ==
    /\ prog = [id |-> "switchEffects", n |-> 1]
    /\ status = "done"
    /\ m_state.trace = <<Store(100, 1), Store(1, 0), Store(2, 1), Store(12, 0), Store(99, 99)>>

\* C17: the step that starts a callee's body gives the callee exactly the
\* parameters, bound by position to the argument values in written order,
\* and the return variables, bound to zero; the step that ends the call
\* yields the return variables' values in declared order.  A callee that
\* reads a variable only its caller has (program "callerOnly") fails at
\* the identifier; pair(a, b) -> p, q { sstore(p, q)  p := b  q := a }
\* called as pair(n, n + 1) (program "pair") stores (0, 0) and yields
\* n + 1, n.
C17_CalleeBindingsAndResult ==
    /\ [][(At("FunctionCall.invoke") /\ status' = "running") =>
             LET fun == Self.m_functions[top.node.functionName]
                 callee == interpreters'[Len(interpreters')].m_variables
             IN  /\ Len(interpreters') = Len(interpreters) + 1
                 /\ DOMAIN callee = Names(fun.parameters) \cup Names(fun.returnVariables)
                 /\ \A name \in Names(fun.returnVariables) : callee[name] = 0
                 /\ \A i \in 1..Len(fun.parameters) :
                        (/\ fun.parameters[i] \notin Names(fun.returnVariables)
                         /\ \A j \in (i + 1)..Len(fun.parameters) :
                                fun.parameters[j] # fun.parameters[i])
                            => callee[fun.parameters[i]] = m_values[i]]_vars
    /\ [][(At("FunctionCall.return") /\ status' = "running") =>
             /\ Len(evaluators'[Len(evaluators')]) = Len(top.node.returnVariables)
             /\ \A k \in 1..Len(top.node.returnVariables) :
                    evaluators'[Len(evaluators')][k] =
                        Self.m_variables[top.node.returnVariables[k]]]_vars
    /\ [](prog.id = "callerOnly" =>
            /\ status # "done"
            /\ status = "failed" => failedAt = 167 /\ Len(interpreters) = 2)
    /\ [](prog.id = "pair" =>
            /\ status # "failed"
            /\ status = "done" =>
                   /\ m_state.trace = <<Store(0, 0), Store(prog.n + 1, prog.n)>>
                   /\ interpreters[1].m_variables = [x |-> prog.n + 1, y |-> prog.n])

\* pair(2, 3) has stored its return variables' zeros and returned 3, 2.
C17_Witness ==
    /\ prog = [id |-> "pair", n |-> 2]
    /\ status = "done"
    /\ m_state.trace = <<Store(0, 0), Store(3, 2)>>
    /\ interpreters[1].m_variables = [x |-> 3, y |-> 2]

\* C18: the step that starts a callee's body gives the callee the function
\* table of the call site, and while the callee runs every function of
\* its caller's table is in its own; the calls to fac from fac (program
\* "factorial"), to odd from even and back (program "parity") and to
\* outer, defined in an enclosing block, from inner (program "enclosing")
\* do not fail.
C18_CalleeSeesCallSiteFunctions ==
    /\ [][(At("FunctionCall.invoke") /\ status' = "running") =>
             interpreters'[Len(interpreters')].m_functions = Self.m_functions]_vars
    /\ [](\A k \in 2..Len(interpreters) :
              DOMAIN interpreters[k - 1].m_functions \subseteq DOMAIN interpreters[k].m_functions)
    /\ [](prog.id \in {"factorial", "parity", "enclosing"} => status # "failed")
    /\ [](prog.id = "enclosing" /\ status = "done" =>
              m_state.trace = <<Store(1, prog.n + 2)>>)

\* inner(3) has called outer twice from inside its body and yielded 5.
C18_Witness ==
    /\ prog = [id |-> "enclosing", n |-> 3]
    /\ status = "done"
    /\ m_state.trace = <<Store(1, 5)>>

\* C20: a call of a name that is not in the function table fails in the
\* step that reaches the call, no argument evaluated and the machine state
\* and the interpreters as they were: nosuch(mark(1), mark(2)) after
\* sstore(5, 5) (program "unknownCall") fails with the trace holding the
\* event of sstore(5, 5) alone.  A call with a wrong number of arguments
\* fails with every argument evaluated: f(mark(1), mark(2)) with f of one
\* parameter (program "arityCall") fails with the events of both arguments.
C20_UnknownFunctionFailsBeforeArguments ==
    /\ [][(/\ AtExpression("FunctionCall")
           /\ top.node.functionName \notin DOMAIN Self.m_functions) =>
             /\ status' = "failed"
             /\ m_state' = m_state
             /\ interpreters' = interpreters]_vars
    /\ [][(/\ At("FunctionCall.invoke")
           /\ status' = "failed") =>
             Len(m_values) = Len(top.node.arguments)]_vars
    /\ [](prog.id = "unknownCall" =>
            /\ status # "done"
            /\ IsPrefix(m_state.trace, <<Store(5, 5)>>)
            /\ status = "failed" => failedAt = 182 /\ m_state.trace = <<Store(5, 5)>>)
    /\ [](prog.id = "arityCall" =>
            /\ status # "done"
            /\ status = "failed" =>
                   /\ failedAt = 186
                   /\ m_state.trace = <<Store(2, 2), Store(1, 1)>>)

\* The call of nosuch has failed at the lookup, no argument's event in the
\* trace.
C20_Witness ==
    /\ prog.id = "unknownCall"
    /\ status = "failed"
    /\ failedAt = 182
    /\ m_state.trace = <<Store(5, 5)>>

\* The source line at which FailingStatement(n) throws, 0 where it does
\* not.
FailingLine(n) ==
    CASE n = 0 -> 167
      [] n = 1 -> 66
      [] n = 2 -> 62
      [] n = 3 -> 152
      [] n = 4 -> 177
      [] OTHER -> 0

\* C19: once a solAssert has thrown no step is possible: no statement
\* runs, no variable is written, no instruction is applied.  In the
\* program whose callee f, called from an if in the second turn of a
\* loop, fails after sstore(k, k) (program "failInCallee", the kind of
\* failure chosen by n), the run ends at the failing line with the trace
\* sstore(20, 0), sstore(1, 1): neither the rest of f, nor the rest of
\* the loop body, nor the statement after the loop has left an event, and
\* the caller's y has not been declared.
C19_FailureEndsExecution ==
    /\ status = "failed" =>
           /\ ~ENABLED Next
           /\ failedAt # 0
    /\ prog.id = "failInCallee" =>
           /\ IsPrefix(m_state.trace,
                       <<Store(20, 0), Store(1, 1), Store(8, 8), Store(7, 2),
                         Store(20, 1), Store(9, 9)>>)
           /\ FailingLine(prog.n) # 0 =>
                  /\ status # "done"
                  /\ IsPrefix(m_state.trace, <<Store(20, 0), Store(1, 1)>>)
                  /\ status = "failed" =>
                         /\ failedAt = FailingLine(prog.n)
                         /\ m_state.trace = <<Store(20, 0), Store(1, 1)>>
                         /\ Len(interpreters) = 2
                         /\ interpreters[1].m_variables = [i |-> 1]
           /\ FailingLine(prog.n) = 0 => status # "failed"

\* The Boolean literal in the callee has failed to decode, inside the
\* call, the if and the loop.
C19_Witness ==
    /\ prog = [id |-> "failInCallee", n |-> 3]
    /\ status = "failed"
    /\ failedAt = 152
    /\ Len(interpreters) = 2
    /\ m_state.trace = <<Store(20, 0), Store(1, 1)>>

====
